---- MODULE Spec2Model ----
(***************************************************************************)
(* A model of boltz.data.write.writer.BoltzWriter: construction, the       *)
(* per-batch handler write_on_batch_end and the on_predict_epoch_end hook. *)
(* Tensors are modelled with their shapes, so that iteration, boolean-mask *)
(* indexing and numpy's assignment broadcasting behave as in the code.     *)
(***************************************************************************)
EXTENDS Integers, Sequences, FiniteSets, TLC

VARIABLES
    pc,          \* "new": not constructed; "idle": between calls; "done": a call has just ended
    self,        \* the writer's attributes: a function from attribute name to value
    fs,          \* the directories that exist outside a call's own log
    prediction,  \* the prediction dict of the current call
    batch,       \* the batch dict of the current call (its "record" list)
    call,        \* what the current call did: its log of filesystem events and how it ended
    exc_calls,   \* history: the number of calls made with prediction["exception"] true
    stdout       \* the lines printed by on_predict_epoch_end

vars == <<pc, self, fs, prediction, batch, call, exc_calls, stdout>>

-----------------------------------------------------------------------------
(* Bounds of the model *)

MaxFailed == 2       \* failed calls per run
MaxCands == 2        \* candidates (models) per batch
MaxAtoms == 2        \* padded atom slots per record
MaxChains == 2       \* chains of a base structure
MaxSteps == 1        \* intermediate refinement steps
MaxRecords == 2      \* records of a batch

-----------------------------------------------------------------------------
(* Tensors: a shape and a value for every 0-based index tuple *)

\* the length of a coordinate row (x, y, z)
CoordDim == 3

RECURSIVE IdxSet(_)
IdxSet(shape) ==
    IF shape = <<>> THEN {<<>>}
    ELSE {<<i>> \o r : i \in 0..(Head(shape) - 1), r \in IdxSet(Tail(shape))}

MkTensor(shape, F(_)) == [shape |-> shape, val |-> [i \in IdxSet(shape) |-> F(i)]]

\* len(t), the number of items an iteration over t yields
TLen(t) == Head(t.shape)

\* t[i]
TIndex(t, i) == MkTensor(Tail(t.shape), LAMBDA r : t.val[<<i>> \o r])

\* t.unsqueeze(0)
Unsqueeze0(t) == MkTensor(<<1>> \o t.shape, LAMBDA r : t.val[Tail(r)])

\* the positions of the true entries of a rank-1 mask, ascending
RECURSIVE TruePositionsFrom(_, _)
TruePositionsFrom(m, a) ==
    IF a >= TLen(m) THEN <<>>
    ELSE (IF m.val[<<a>>] THEN <<a>> ELSE <<>>) \o TruePositionsFrom(m, a + 1)

TruePositions(m) == TruePositionsFrom(m, 0)

\* whether t[m] is defined for a rank-1 boolean mask m (torch raises IndexError otherwise)
MaskIndexOk(t, m) == t.shape # <<>> /\ Head(t.shape) = TLen(m)

\* t[m.bool()] for a rank-1 mask m: the rows of t at the true positions, in order
MaskIndex(t, m) ==
    LET pos == TruePositions(m)
    IN  MkTensor(<<Len(pos)>> \o Tail(t.shape),
                 LAMBDA r : t.val[<<pos[Head(r) + 1]>> \o Tail(r)])

\* numpy assignment dst[...] = src: unit dimensions are stripped from the left of
\* src while it has more dimensions than dst; then src is broadcast to dst's shape
RECURSIVE StripLeft(_, _)
StripLeft(sshape, n) ==
    IF Len(sshape) > n /\ Head(sshape) = 1 THEN StripLeft(Tail(sshape), n) ELSE sshape

BroadcastOk(dshape, sshape) ==
    LET s == StripLeft(sshape, Len(dshape))
        off == Len(dshape) - Len(s)
    IN  /\ off >= 0
        /\ \A j \in 1..Len(s) : s[j] = dshape[j + off] \/ s[j] = 1

Broadcast(dshape, src) ==
    LET s == StripLeft(src.shape, Len(dshape))
        off == Len(dshape) - Len(s)
        lead == [j \in 1..(Len(src.shape) - Len(s)) |-> 0]
    IN  MkTensor(dshape,
                 LAMBDA r : src.val[lead \o [j \in 1..Len(s) |->
                                        IF s[j] = 1 THEN 0 ELSE r[j + off]]])

-----------------------------------------------------------------------------
(* Structure, Record and the operations on them *)

Range(f) == {f[x] : x \in DOMAIN f}

\* the 1-based positions of the true entries of a sequence of booleans, ascending
RECURSIVE TrueIndices(_, _)
TrueIndices(mask, i) ==
    IF i > Len(mask) THEN <<>>
    ELSE (IF mask[i] THEN <<i>> ELSE <<>>) \o TrueIndices(mask, i + 1)

RECURSIVE SumSeq(_)
SumSeq(s) == IF s = <<>> THEN 0 ELSE Head(s) + SumSeq(Tail(s))

\* the rows first+1 .. first+num of a table
Rows(table, first, num) == [j \in 1..num |-> table[first + j]]

RECURSIVE Concat(_)
Concat(ss) == IF ss = <<>> THEN <<>> ELSE Head(ss) \o Concat(Tail(ss))

\* A base structure as stored on disk: chain i (0-based asym_id i) owns one residue
\* and one atom; present tells whether its rows are flagged present.
BaseCoord(atom, d) == 0 - (10 * atom + d + 1)

DiskStructure(mask, present) ==
    [ atoms      |-> [a \in 1..Len(mask) |->
                        [coords |-> [d \in 1..CoordDim |-> BaseCoord(a - 1, d - 1)],
                         is_present |-> present]],
      residues   |-> [r \in 1..Len(mask) |-> [is_present |-> present]],
      chains     |-> [c \in 1..Len(mask) |->
                        [asym_id |-> c - 1, atom_idx |-> c - 1, atom_num |-> 1,
                         res_idx |-> c - 1, res_num |-> 1]],
      mask       |-> mask,
      interfaces |-> IF Len(mask) > 1 THEN <<[chain_1 |-> 0, chain_2 |-> 1]>> ELSE <<>> ]

\* Structure.remove_invalid_chains(): a new structure holding the chains whose mask
\* entry is true, renumbered 0, 1, .. in order, with the atoms and residues they own
remove_invalid_chains(s) ==
    LET keep == TrueIndices(s.mask, 1)
        atomsBefore(k) == SumSeq([j \in 1..(k - 1) |-> s.chains[keep[j]].atom_num])
        resBefore(k) == SumSeq([j \in 1..(k - 1) |-> s.chains[keep[j]].res_num])
    IN  [ atoms      |-> Concat([k \in 1..Len(keep) |->
                            Rows(s.atoms, s.chains[keep[k]].atom_idx,
                                 s.chains[keep[k]].atom_num)]),
          residues   |-> Concat([k \in 1..Len(keep) |->
                            Rows(s.residues, s.chains[keep[k]].res_idx,
                                 s.chains[keep[k]].res_num)]),
          chains     |-> [k \in 1..Len(keep) |->
                            [s.chains[keep[k]] EXCEPT !.asym_id = k - 1,
                                                      !.atom_idx = atomsBefore(k),
                                                      !.res_idx = resBefore(k)]],
          mask       |-> [k \in 1..Len(keep) |-> TRUE],
          interfaces |-> <<>> ]

\* lines 83-87: chain_map[len(chain_map)] = i for every true structure.mask[i]
RECURSIVE ChainMapFrom(_, _, _)
ChainMapFrom(mask, i, chain_map) ==
    IF i >= Len(mask) THEN chain_map
    ELSE ChainMapFrom(mask, i + 1,
            IF mask[i + 1]
            THEN chain_map @@ (Cardinality(DOMAIN chain_map) :> i)
            ELSE chain_map)

\* a chain_map that numbers every chain, valid or not (the identity)
ChainMapUnmasked(mask) == [i \in 0..(Len(mask) - 1) |-> i]

ChainMap(mask) == ChainMapFrom(mask, 0, <<>>)

\* lines 150-160: the chain info of a new structure
ChainInfoOk(chains, chain_map, record) ==
    \A c \in 1..Len(chains) :
        /\ chains[c].asym_id \in DOMAIN chain_map
        /\ chain_map[chains[c].asym_id] + 1 \in DOMAIN record.chains

ChainInfo(chains, chain_map, record) ==
    [c \in 1..Len(chains) |->
        [record.chains[chain_map[chains[c].asym_id] + 1]
            EXCEPT !.chain_id = chains[c].asym_id, !.valid = TRUE]]

\* Structure.load(data_dir / f"{id}.npz"): a record id names the structure stored
\* under it (its chain mask and presence flags); copy tells records of a batch apart
StructureLoad(data_dir, id) == DiskStructure(id.mask, id.present)

-----------------------------------------------------------------------------
(* Ranking, lines 73-75 *)

Perms(n) == {p \in [1..n -> 0..(n - 1)] : \A i, j \in 1..n : i # j => p[i] # p[j]}

\* torch.argsort(scores, descending=True): stable is False, so the order of equal
\* scores is not fixed; any permutation that orders the scores is a possible result
Argsorts(scores) ==
    {p \in Perms(TLen(scores)) :
        \A i \in 1..(Len(p) - 1) : scores.val[<<p[i]>>] >= scores.val[<<p[i + 1]>>]}

\* idx_to_rank = {idx.item(): rank for rank, idx in enumerate(argsort)}
IdxToRank(argsort) ==
    [idx \in Range(argsort) |-> CHOOSE rank \in 0..(Len(argsort) - 1) : argsort[rank + 1] = idx]

-----------------------------------------------------------------------------
(* BoltzWriter.__init__ *)

Formats == {"pdb", "mmcif", "npz"}

\* a validation left to the first write: every format is accepted at construction
ValidFormatLazy(output_format) == TRUE

\* line 39
ValidFormat(output_format) == output_format \in {"pdb", "mmcif"}

\* lines 38-49. The writer's own attributes are assigned, and output_dir is created,
\* only after the format check; a ValueError leaves no writer behind.
BoltzWriter_init(data_dir, output_dir, output_format) ==
    /\ pc = "new"
    /\ IF ~ValidFormat(output_format)
       THEN /\ pc' = "init_raised"
            /\ call' = [outcome |-> "ValueError", output_format |-> output_format]
            /\ UNCHANGED <<self, fs>>
       ELSE /\ pc' = "idle"
            /\ self' = [data_dir |-> data_dir, output_dir |-> output_dir,
                        output_format |-> output_format, failed |-> 0]
            /\ fs' = fs \cup {output_dir}
            /\ call' = [outcome |-> "constructed", output_format |-> output_format]
    /\ UNCHANGED <<prediction, batch, exc_calls, stdout>>

-----------------------------------------------------------------------------
(* write_on_batch_end: the state of one call.  cx holds the values the loops bind  *)
(* (record, coord, pad_mask, chain_map, model_idx); h holds what the call has done  *)
(* so far: its log of filesystem events, the heap of atom and residue tables, the   *)
(* structure object of the record and the structure assembled last.                 *)

\* A path under output_dir: <id>/[intermediate/]<prefix><id>_model_<rank>[_step_<step>].<ext>;
\* a directory has an empty ext, and rank and step are -1 where the name has none
FilePath(dir, id, prefix, rank, step, ext) ==
    [dir |-> dir, id |-> id, prefix |-> prefix, rank |-> rank, step |-> step, ext |-> ext]

DirPath(dir, id) == FilePath(dir, id, "", -1, -1, "")

\* the value of a structure object: its tables read from the heap
Snapshot(heap, s) ==
    [atoms |-> heap[s.atoms], residues |-> heap[s.residues],
     chains |-> s.chains, interfaces |-> s.interfaces]

Raise(h, error) == [h EXCEPT !.outcome = error]

Emit(h, op, path, content) ==
    [h EXCEPT !.log = Append(@, [op |-> op, path |-> path, content |-> content])]

Then(h, F(_)) == IF h.outcome # "ok" THEN h ELSE F(h)

Min(S) == CHOOSE x \in S : \A y \in S : x <= y

\* table["is_present"] = True
SetPresent(table) == [r \in 1..Len(table) |-> [table[r] EXCEPT !.is_present = TRUE]]

\* the shape of table["coords"]
CoordsShape(table) == <<Len(table), CoordDim>>

\* the rows of table with the coordinates b, a tensor of the shape of table["coords"]
WithCoords(table, b) ==
    [r \in 1..Len(table) |->
        [table[r] EXCEPT !.coords = [d \in 1..CoordDim |-> b.val[<<r - 1, d - 1>>]]]]

\* atoms["coords"] = coord_unpad, defined when the shapes broadcast
SetCoords(table, coord_unpad) ==
    WithCoords(table, Broadcast(CoordsShape(table), coord_unpad))

\* the encoder a format selects, lines 120-125 and 166-187
Encoder(output_format) ==
    IF output_format = "pdb" THEN "to_pdb"
    ELSE IF output_format = "mmcif" THEN "to_mmcif" ELSE "savez_compressed"

\* new_structure = replace(structure, atoms=.., residues=.., interfaces=empty), with the
\* atom table at ref; the assembled structure is remembered with its value
Assemble(h, model_idx, step, ref) ==
    [h EXCEPT !.new_structure = [h.structure EXCEPT !.atoms = ref, !.interfaces = <<>>],
              !.assembled = Append(@,
                  [model_idx |-> model_idx, step |-> step,
                   structure |-> [h.structure EXCEPT !.atoms = ref, !.interfaces = <<>>],
                   value |-> Snapshot(h.heap,
                                [h.structure EXCEPT !.atoms = ref, !.interfaces = <<>>])])]

\* lines 106-108: the intermediate loop fills a copy of the atom table
IntermediateAtoms(h, coord_unpad) ==
    [h EXCEPT !.heap = Append(@, SetPresent(SetCoords(@[h.structure.atoms], coord_unpad)))]

\* lines 117-125
IntermediateWrite(cx, h, step) ==
    IF cx.model_idx \notin DOMAIN cx.idx_to_rank THEN Raise(h, "KeyError")
    ELSE Emit(h, "write",
              FilePath("intermediate", cx.record.id, "", cx.idx_to_rank[cx.model_idx], step,
                       cx.self.output_format),
              [encoder |-> Encoder(cx.self.output_format), model_idx |-> cx.model_idx,
               step |-> step, structure |-> Snapshot(h.heap, h.new_structure),
               plddt |-> FALSE])

\* lines 105-125
IntermediateAssemble(cx, h, step, coord_unpad) ==
    IF ~BroadcastOk(CoordsShape(h.heap[h.structure.atoms]), coord_unpad.shape)
    THEN Raise(h, "ValueError")
    ELSE IntermediateWrite(cx,
            Assemble(IntermediateAtoms(h, coord_unpad), cx.model_idx, step,
                     Len(h.heap) + 1),
            step)

\* lines 101-103
IntermediateUnpad(cx, h, step, model_step_coords) ==
    IF ~MaskIndexOk(model_step_coords, cx.pad_mask) THEN Raise(h, "IndexError")
    ELSE IntermediateAssemble(cx, h, step, MaskIndex(model_step_coords, cx.pad_mask))

\* line 100
IntermediateSelect(cx, h, step, step_coords) ==
    IF cx.model_idx >= TLen(step_coords) THEN Raise(h, "IndexError")
    ELSE IntermediateUnpad(cx, h, step, TIndex(step_coords, cx.model_idx))

\* lines 98-125, one step of one candidate
IntermediateStep(cx, h, step) ==
    IntermediateSelect(cx, h, step, TIndex(cx.prediction["intermediate_coords"], step))

RECURSIVE IntermediateLoop(_, _, _)
IntermediateLoop(cx, h, step) ==
    IF h.outcome # "ok" \/ step >= TLen(cx.prediction["intermediate_coords"]) THEN h
    ELSE IntermediateLoop(cx, IntermediateStep(cx, h, step), step + 1)

\* lines 94-125
Intermediates(cx, h) ==
    IF "intermediate_coords" \in DOMAIN cx.prediction
    THEN IntermediateLoop(cx,
            Emit(h, "mkdir", DirPath("intermediate", cx.record.id), [encoder |-> "mkdir"]), 0)
    ELSE h

\* lines 132-139: the final candidate fills structure.atoms and structure.residues
FinalAtoms(h, coord_unpad) ==
    [h EXCEPT !.heap = [@ EXCEPT
        ![h.structure.atoms] = SetPresent(SetCoords(@, coord_unpad)),
        ![h.structure.residues] = SetPresent(@)]]

\* the suffix of the final structure file, lines 166-187
FinalSuffix(output_format) ==
    IF output_format = "pdb" THEN "pdb"
    ELSE IF output_format = "mmcif" THEN "cif" ELSE "npz"

\* the per-atom confidence is passed to the mmcif encoder, lines 177-182
WithPlddt(cx) == cx.self.output_format = "mmcif" /\ "plddt" \in DOMAIN cx.prediction

\* lines 166-187
FinalWrite(cx, h) ==
    IF cx.model_idx \notin DOMAIN cx.idx_to_rank THEN Raise(h, "KeyError")
    ELSE IF WithPlddt(cx) /\ cx.model_idx >= TLen(cx.prediction["plddt"])
         THEN Raise(h, "IndexError")
    ELSE Emit(h, "write",
              FilePath("struct", cx.record.id, "", cx.idx_to_rank[cx.model_idx], -1,
                       FinalSuffix(cx.self.output_format)),
              [encoder |-> Encoder(cx.self.output_format), model_idx |-> cx.model_idx,
               step |-> -1, structure |-> Snapshot(h.heap, h.new_structure),
               plddt |-> WithPlddt(cx)])

\* lines 150-164
FinalChainInfo(cx, h) ==
    IF ~ChainInfoOk(h.new_structure.chains, cx.chain_map, cx.record)
    THEN Raise(h, "KeyError")
    ELSE FinalWrite(cx,
            Emit([h EXCEPT !.chain_info =
                        Append(@, ChainInfo(h.new_structure.chains, cx.chain_map, cx.record))],
                 "mkdir", DirPath("struct", cx.record.id), [encoder |-> "mkdir"]))

\* lines 132-148
FinalAssemble(cx, h, coord_unpad) ==
    IF ~BroadcastOk(CoordsShape(h.heap[h.structure.atoms]), coord_unpad.shape)
    THEN Raise(h, "ValueError")
    ELSE FinalChainInfo(cx,
            Assemble(FinalAtoms(h, coord_unpad), cx.model_idx, -1, h.structure.atoms))

\* lines 128-130
FinalUnpad(cx, h, model_coord) ==
    IF ~MaskIndexOk(model_coord, cx.pad_mask) THEN Raise(h, "IndexError")
    ELSE FinalAssemble(cx, h, MaskIndex(model_coord, cx.pad_mask))

\* lines 127-187: assemble the final structure of a candidate and write it
FinalStructure(cx, h) == FinalUnpad(cx, h, TIndex(cx.coord, cx.model_idx))

\* lines 196-206
SummaryKeys ==
    <<"confidence_score", "ptm", "iptm", "ligand_iptm", "protein_iptm",
      "complex_plddt", "complex_iplddt", "complex_pde", "complex_ipde">>

\* prediction[key][model_idx] can be read
CanRead(cx, key) ==
    key \in DOMAIN cx.prediction /\ cx.model_idx < TLen(cx.prediction[key])

SideFile(cx, prefix, ext) ==
    FilePath("struct", cx.record.id, prefix, cx.idx_to_rank[cx.model_idx], -1, ext)

\* lines 195-220: the summary of a candidate
Summary(cx, pair) ==
    [scalars |-> [k \in Range(SummaryKeys) |-> cx.prediction[k].val[<<cx.model_idx>>]],
     chains_ptm |-> [idx \in DOMAIN pair |-> pair[idx][idx].val[<<cx.model_idx>>]],
     pair_chains_iptm |-> [idx1 \in DOMAIN pair |-> [idx2 \in DOMAIN pair[idx1] |->
                              pair[idx1][idx2].val[<<cx.model_idx>>]]]]

\* lines 229-235
PlddtFile(cx, h) ==
    IF ~CanRead(cx, "plddt") THEN Raise(h, "IndexError")
    ELSE Emit(h, "write", SideFile(cx, "plddt_", "npz"),
              [encoder |-> "savez_compressed", model_idx |-> cx.model_idx,
               array |-> TIndex(cx.prediction["plddt"], cx.model_idx)])

\* lines 196-207: the keys of the summary that cannot be read for the candidate
UnreadKeys(cx) == {i \in 1..Len(SummaryKeys) : ~CanRead(cx, SummaryKeys[i])}

\* lines 189-235: the confidence summary and the plddt archive are written when
\* "plddt" is a key of the prediction
ConfidenceSummary(cx, h) ==
    IF "plddt" \notin DOMAIN cx.prediction THEN h
    ELSE IF UnreadKeys(cx) # {}
         THEN Raise(h, IF SummaryKeys[Min(UnreadKeys(cx))] \in DOMAIN cx.prediction
                       THEN "IndexError" ELSE "KeyError")
    ELSE IF "pair_chains_iptm" \notin DOMAIN cx.prediction THEN Raise(h, "KeyError")
    ELSE PlddtFile(cx,
            Emit(h, "write", SideFile(cx, "confidence_", "json"),
                 [encoder |-> "json", model_idx |-> cx.model_idx,
                  summary |-> Summary(cx, cx.prediction["pair_chains_iptm"])]))

\* lines 237-253: pae and pde
PairwiseError(cx, h, key, prefix) ==
    IF h.outcome # "ok" \/ key \notin DOMAIN cx.prediction THEN h
    ELSE IF ~CanRead(cx, key) THEN Raise(h, "IndexError")
    ELSE Emit(h, "write", SideFile(cx, prefix, "npz"),
              [encoder |-> "savez_compressed", model_idx |-> cx.model_idx,
               array |-> TIndex(cx.prediction[key], cx.model_idx)])

\* lines 92-253: the body of the candidate loop
Candidate(cx, h) ==
    PairwiseError(cx,
        PairwiseError(cx,
            Then(Then(Intermediates(cx, h), LAMBDA x : FinalStructure(cx, x)),
                 LAMBDA y : ConfidenceSummary(cx, y)),
            "pae", "pae_"),
        "pde", "pde_")

RECURSIVE CandidateLoop(_, _, _)
CandidateLoop(cx, h, model_idx) ==
    IF h.outcome # "ok" \/ model_idx >= TLen(cx.coord) THEN h
    ELSE CandidateLoop(cx, Candidate([cx EXCEPT !.model_idx = model_idx], h), model_idx + 1)

\* what the call keeps of a record once its candidate loop has ended: the structure
\* right after filtering, the value of the structure object now, and every assembled
\* structure with its value when assembled and its value now
RecordDone(cx, h) ==
    [h EXCEPT !.records = Append(@,
        [id |-> cx.record.id,
         chain_map |-> cx.chain_map,
         filtered |-> h.filtered,
         base |-> Snapshot(h.heap, h.structure),
         assembled |-> [i \in 1..Len(h.assembled) |->
                          [model_idx |-> h.assembled[i].model_idx,
                           step |-> h.assembled[i].step,
                           value |-> h.assembled[i].value,
                           now |-> Snapshot(h.heap, h.assembled[i].structure)]],
         chain_info |-> h.chain_info])]

\* line 90 and lines 92-253: the tables of the filtered structure become the heap
\* objects 1 (atoms) and 2 (residues)
Filtered(cx, h, structure) ==
    RecordDone(cx,
        CandidateLoop(cx,
            [h EXCEPT !.heap = <<structure.atoms, structure.residues>>,
                      !.structure = [structure EXCEPT !.atoms = 1, !.residues = 2],
                      !.filtered = structure,
                      !.new_structure = <<>>,
                      !.assembled = <<>>,
                      !.chain_info = <<>>],
            0))

\* lines 80-90
Loaded(cx, h, structure) ==
    Filtered([cx EXCEPT !.chain_map = ChainMap(structure.mask)], h,
             remove_invalid_chains(structure))

\* lines 78-253: one record of the batch
ProcessRecord(cx, h) == Loaded(cx, h, StructureLoad(cx.self.data_dir, cx.record.id))

\* for record, coord, pad_mask in zip(records, coords, pad_masks)
RECURSIVE RecordLoop(_, _, _, _, _)
RecordLoop(cx, h, records, coords, pad_masks) ==
    IF \/ h.outcome # "ok"
       \/ Len(h.records) >= Min({Len(records), TLen(coords), TLen(pad_masks)})
    THEN h
    ELSE RecordLoop(cx,
            ProcessRecord([cx EXCEPT !.record = records[Len(h.records) + 1],
                                     !.coord = TIndex(coords, Len(h.records)),
                                     !.pad_mask = TIndex(pad_masks, Len(h.records))], h),
            records, coords, pad_masks)

\* what a call leaves behind
Result(h, argsort) ==
    [outcome |-> IF h.outcome = "ok" THEN "returned" ELSE h.outcome,
     argsort |-> argsort,
     idx_to_rank |-> IdxToRank(argsort),
     log |-> h.log,
     records |-> h.records]

\* lines 65-253: the handler on a batch without the failure flag, for one result of
\* the argsort
Handler(slf, pred, bat, argsort) ==
    Result(
        RecordLoop(
            [self |-> slf, prediction |-> pred, idx_to_rank |-> IdxToRank(argsort),
             record |-> <<>>, coord |-> <<>>, pad_mask |-> <<>>, chain_map |-> <<>>,
             model_idx |-> 0],
            [outcome |-> "ok", log |-> <<>>, heap |-> <<>>, structure |-> <<>>,
             filtered |-> <<>>, new_structure |-> <<>>, assembled |-> <<>>,
             chain_info |-> <<>>, records |-> <<>>],
            bat["record"], Unsqueeze0(pred["coords"]), pred["masks"]),
        argsort)

-----------------------------------------------------------------------------
(* The batches and predictions the harness supplies *)

BoolSeqs(n) == [1..n -> BOOLEAN]

\* the chain masks of the structures on disk: at least one chain is valid
ChainMasks == {m \in UNION {BoolSeqs(n) : n \in 1..MaxChains} : \E c \in DOMAIN m : m[c]}

RecordIds == {[mask |-> m, present |-> p, copy |-> 0] : m \in ChainMasks, p \in BOOLEAN}

\* a Record: its id and one chain info per chain of the unfiltered structure
MkRecord(id) ==
    [id |-> id,
     chains |-> [c \in 1..Len(id.mask) |-> [chain_id |-> c - 1, valid |-> id.mask[c]]]]

\* a batch of n records over the same structure
MkBatch(id, n) == [record |-> [i \in 1..n |-> MkRecord([id EXCEPT !.copy = i - 1])]]

\* every coordinate of a prediction is a distinct number: the digits of its index,
\* after the number of the tensor it belongs to
RECURSIVE Digits(_, _)
Digits(r, acc) == IF r = <<>> THEN acc ELSE Digits(Tail(r), 10 * acc + Head(r))

Layouts == {"candidates", "records"}

\* the shape of prediction["coords"]: [num_candidates, max_atoms, 3] as the model emits
\* it for a batch of one record, or [num_records, num_candidates, max_atoms, 3]
CoordsShapeOf(layout, n, C, A) ==
    IF layout = "candidates" THEN <<C, A, CoordDim>> ELSE <<n, C, A, CoordDim>>

OptionalKeys == {"plddt", "pair_chains_iptm", "pae", "pde"}

ScalarChoices == {Range(SummaryKeys), {"confidence_score"}}

MkPrediction(layout, n, mask, scores, scalars, keys, S) ==
    LET C == Len(scores)
        A == Len(mask)
        shape == CoordsShapeOf(layout, n, C, A)
        perCand == MkTensor(<<C>>, LAMBDA r : Head(r))
    IN  [k \in {"exception", "coords", "masks"} |->
            IF k = "exception" THEN FALSE
            ELSE IF k = "coords" THEN MkTensor(shape, LAMBDA r : Digits(r, 0))
            ELSE MkTensor(<<n, A>>, LAMBDA r : mask[r[2] + 1])]
        @@ [k \in scalars |->
            IF k = "confidence_score" THEN MkTensor(<<C>>, LAMBDA r : scores[Head(r) + 1])
            ELSE perCand]
        @@ [k \in keys |->
            IF k = "plddt" THEN MkTensor(<<C, A>>, LAMBDA r : Digits(r, 0))
            ELSE IF k = "pair_chains_iptm"
            THEN [idx1 \in 0..(MaxChains - 1) |-> [idx2 \in 0..(MaxChains - 1) |-> perCand]]
            ELSE MkTensor(<<C, A, A>>, LAMBDA r : Digits(r, 0))]
        @@ [k \in (IF S > 0 THEN {"intermediate_coords"} ELSE {}) |->
            MkTensor(<<S>> \o shape, LAMBDA r : Digits(r, 1))]

\* MkPrediction of an input: the parameters of a prediction and the record id
PredictionOf(in) ==
    MkPrediction(in.layout, in.n, in.mask, in.scores, in.scalars, in.keys, in.S)

Masks == UNION {BoolSeqs(A) : A \in 1..MaxAtoms}

\* scores that rise with the candidate index: the last candidate ranks first
Rising(C) == [c \in 1..C |-> c - 1]

\* The inputs of the model, in four families. Shapes: a batch of one record in the
\* layout the model emits, with every pad mask and every base structure.
ShapeInputs ==
    {[layout |-> "candidates", n |-> 1, mask |-> mask, scores |-> Rising(C),
      scalars |-> {"confidence_score"}, keys |-> {}, S |-> S, id |-> id] :
        mask \in Masks, C \in 1..MaxCands, S \in {0, MaxSteps}, id \in RecordIds}

\* Records: coords with a leading record dimension, for every batch size, on records
\* whose pad mask marks the atoms of their base structure.
RecordInputs ==
    {[layout |-> "records", n |-> n, mask |-> id.mask, scores |-> Rising(C),
      scalars |-> {"confidence_score"}, keys |-> {}, S |-> S, id |-> id] :
        n \in 1..MaxRecords, C \in 1..MaxCands, S \in {0, MaxSteps}, id \in RecordIds}

\* Scores: every score vector, on a batch of one such record.
ScoreInputs ==
    {[layout |-> "candidates", n |-> 1, mask |-> id.mask, scores |-> scores,
      scalars |-> {"confidence_score"}, keys |-> {}, S |-> S, id |-> id] :
        scores \in UNION {[1..C -> 0..(C - 1)] : C \in 1..MaxCands},
        S \in {0, MaxSteps}, id \in RecordIds}

\* Keys: every set of optional keys, on a batch of one such record.
KeyInputs ==
    {[layout |-> "candidates", n |-> 1, mask |-> id.mask, scores |-> Rising(MaxCands),
      scalars |-> scalars, keys |-> keys, S |-> S, id |-> id] :
        scalars \in ScalarChoices, keys \in SUBSET OptionalKeys,
        S \in 0..MaxSteps, id \in RecordIds}

Inputs == ShapeInputs \cup RecordInputs \cup ScoreInputs \cup KeyInputs

FailedPrediction == [exception |-> TRUE]

-----------------------------------------------------------------------------
(* write_on_batch_end and on_predict_epoch_end *)

\* a failed batch that is not counted
CountFailureSkipped(failed) == failed

\* line 62
CountFailure(failed) == failed + 1

\* lines 51-253: a batch with the failure flag is counted and nothing else happens;
\* any other batch is written, with one of the orders the argsort may return
write_on_batch_end(pred, bat) ==
    /\ pc = "idle"
    /\ IF pred["exception"]
       THEN /\ self.failed < MaxFailed
            /\ self' = [self EXCEPT !.failed = CountFailure(@)]
            /\ call' = [outcome |-> "returned", argsort |-> <<>>, idx_to_rank |-> <<>>,
                        log |-> <<>>, records |-> <<>>]
            /\ exc_calls' = exc_calls + 1
       ELSE /\ \E argsort \in Argsorts(pred["confidence_score"]) :
                    call' = Handler(self, pred, bat, argsort)
            /\ UNCHANGED <<self, exc_calls>>
    /\ pc' = "done"
    /\ prediction' = pred
    /\ batch' = bat
    /\ UNCHANGED <<fs, stdout>>

\* the harness takes the next batch once the handler has returned or raised
NextBatch ==
    /\ pc = "done"
    /\ pc' = "idle"
    /\ prediction' = <<>>
    /\ batch' = <<>>
    /\ call' = <<>>
    /\ UNCHANGED <<self, fs, exc_calls, stdout>>

\* lines 255-262
on_predict_epoch_end ==
    /\ pc = "idle"
    /\ pc' = "ended"
    /\ stdout' = Append(stdout, [text |-> "Number of failed examples", failed |-> self.failed])
    /\ UNCHANGED <<self, fs, prediction, batch, call, exc_calls>>

-----------------------------------------------------------------------------
Init ==
    /\ pc = "new"
    /\ self = <<>>
    /\ fs \in {{}, {"output_dir"}}
    /\ prediction = <<>>
    /\ batch = <<>>
    /\ call = <<>>
    /\ exc_calls = 0
    /\ stdout = <<>>

Next ==
    \/ \E output_format \in Formats : BoltzWriter_init("data_dir", "output_dir", output_format)
    \/ pc = "idle" /\ \E id \in RecordIds, n \in 1..MaxRecords :
            write_on_batch_end(FailedPrediction, MkBatch(id, n))
    \/ pc = "idle" /\ \E in \in Inputs :
            write_on_batch_end(PredictionOf(in), MkBatch(in.id, in.n))
    \/ NextBatch
    \/ on_predict_epoch_end

Spec == Init /\ [][Next]_vars

-----------------------------------------------------------------------------
(* What the properties below speak of *)

\* a call has ended, and its prediction carried no failure flag
Written == pc = "done" /\ ~prediction["exception"]

TrueCount(seq) == Cardinality({i \in DOMAIN seq : seq[i]})

\* the pad mask of the i-th record of the batch (1-based), as a sequence
MaskRow(i) ==
    [a \in 1..prediction["masks"].shape[2] |-> prediction["masks"].val[<<i - 1, a - 1>>]]

NumCandidates == TLen(prediction["confidence_score"])

\* coords came as [num_candidates, max_atoms, 3], the batch has one record, and the pad
\* mask marks as many atoms as the filtered base structure has
MatchingBatch ==
    /\ Written
    /\ Len(prediction["coords"].shape) = 3
    /\ Len(batch["record"]) = 1
    /\ TrueCount(MaskRow(1)) = TrueCount(batch["record"][1].id.mask)

\* the log entries that wrote a file named prefix..._model_<rank>[_step_<step>] of a record
WritesOf(dir, id, prefix) ==
    {i \in DOMAIN call.log :
        /\ call.log[i].op = "write"
        /\ call.log[i].path.dir = dir
        /\ call.log[i].path.id = id
        /\ call.log[i].path.prefix = prefix}

\* the log entries that handed a structure to an encoder
StructureWrites ==
    {i \in DOMAIN call.log :
        call.log[i].op = "write" /\ call.log[i].path.prefix = ""}

-----------------------------------------------------------------------------
(* C1: on a writer, the failure counter equals the number of calls made with the   *)
(* failure flag; such a call writes nothing and returns without raising.           *)
C1_FailureCounter ==
    /\ pc \in {"idle", "done", "ended"} => self.failed = exc_calls
    /\ (pc = "done" /\ prediction["exception"]) =>
            call.log = <<>> /\ call.outcome = "returned"

\* a second failed batch has just been counted
C1_Witness == pc = "done" /\ prediction["exception"] /\ self.failed = 2

(* C2: the final structure file of rank k holds the candidate that is k-th by        *)
(* descending score, ties broken by ascending candidate index; the ranks are a       *)
(* bijection onto 0..num_candidates-1.                                               *)
StableRank(c) ==
    LET score(x) == prediction["confidence_score"].val[<<x>>]
    IN  Cardinality({x \in 0..(NumCandidates - 1) :
            score(x) > score(c) \/ (score(x) = score(c) /\ x < c)})

C2_StableRanking ==
    MatchingBatch =>
        /\ DOMAIN call.idx_to_rank = 0..(NumCandidates - 1)
        /\ \A c \in 0..(NumCandidates - 1) : call.idx_to_rank[c] = StableRank(c)
        /\ \A i \in StructureWrites :
                call.log[i].path.rank = StableRank(call.log[i].content.model_idx)

C4_EveryRecord ==
    (Written /\ Len(prediction["coords"].shape) = 4) =>
        /\ call.outcome = "returned"
        /\ \A r \in 1..Len(batch["record"]) : \A c \in 0..(NumCandidates - 1) :
                Cardinality({i \in WritesOf("struct", batch["record"][r].id, "") :
                                call.log[i].content.model_idx = c}) = 1

(* C5: when the true-count of a record's pad mask differs from the number of atoms   *)
(* of the filtered base structure, the call ends in an error and has written no      *)
(* structure of that record.                                                         *)
C5_ShapeMismatch ==
    (Written /\ Len(prediction["coords"].shape) = 3) =>
        \A r \in 1..Len(call.records) :
            TrueCount(MaskRow(r)) # Len(call.records[r].filtered.atoms) =>
                /\ call.outcome # "returned"
                /\ \A i \in StructureWrites :
                        call.log[i].path.id # call.records[r].id

(* C6: the filtered base structure keeps its atom and residue tables through the     *)
(* candidate loop, and an assembled structure keeps the value it was assembled with. *)
C6_BaseUntouched ==
    MatchingBatch =>
        \A r \in 1..Len(call.records) :
            /\ call.records[r].base.atoms = call.records[r].filtered.atoms
            /\ call.records[r].base.residues = call.records[r].filtered.residues
            /\ \A k \in 1..Len(call.records[r].assembled) :
                    call.records[r].assembled[k].now = call.records[r].assembled[k].value

(* C7: for every candidate the confidence summary is written iff the scalar          *)
(* confidence fields are present, and the plddt, pae and pde archives iff their      *)
(* field is present; a batch with plddt and without pair_chains_iptm completes.      *)
(* Stated for the batches that carry plddt and every scalar field.                   *)
HasSideFile(prefix, ext, c) ==
    \E i \in WritesOf("struct", batch["record"][1].id, prefix) :
        /\ call.log[i].content.model_idx = c
        /\ call.log[i].path.ext = ext
        /\ call.log[i].path.rank = call.idx_to_rank[c]

C7_SideFiles ==
    (MatchingBatch /\ "plddt" \in DOMAIN prediction
        /\ Range(SummaryKeys) \subseteq DOMAIN prediction) =>
        /\ call.outcome = "returned"
        /\ \A c \in 0..(NumCandidates - 1) :
            /\ HasSideFile("confidence_", "json", c)
                    <=> Range(SummaryKeys) \subseteq DOMAIN prediction
            /\ HasSideFile("plddt_", "npz", c) <=> "plddt" \in DOMAIN prediction
            /\ HasSideFile("pae_", "npz", c) <=> "pae" \in DOMAIN prediction
            /\ HasSideFile("pde_", "npz", c) <=> "pde" \in DOMAIN prediction

(* C8: with intermediate_coords, every candidate and step has exactly one file       *)
(* <R>/intermediate/<R>_model_<k>_step_<s>.<ext>, ext being the suffix of the final   *)
(* structure file (pdb, or cif for mmcif), written before that final file.           *)
SuffixOf(output_format) == IF output_format = "pdb" THEN "pdb" ELSE "cif"

C8_IntermediateFiles ==
    (MatchingBatch /\ call.outcome = "returned"
        /\ "intermediate_coords" \in DOMAIN prediction) =>
        \A c \in 0..(NumCandidates - 1) :
        \A s \in 0..(TLen(prediction["intermediate_coords"]) - 1) :
            LET id == batch["record"][1].id
                steps == {i \in WritesOf("intermediate", id, "") :
                            call.log[i].path = FilePath("intermediate", id, "",
                                call.idx_to_rank[c], s, SuffixOf(self.output_format))}
                finals == {i \in WritesOf("struct", id, "") :
                            call.log[i].path = FilePath("struct", id, "",
                                call.idx_to_rank[c], -1, SuffixOf(self.output_format))}
            IN  /\ Cardinality(steps) = 1
                /\ Cardinality(finals) = 1
                /\ \A i \in steps : \A j \in finals : i < j

(* C9: every structure handed to an encoder has the unpadded prediction of its       *)
(* candidate (and step) as coordinates, in atom order, every atom and every residue  *)
(* present, and no interfaces.                                                       *)
Unpadded(c, step) ==
    LET pos == TrueIndices(MaskRow(1), 1)
    IN  [j \in 1..Len(pos) |-> [d \in 1..CoordDim |->
            IF step < 0
            THEN prediction["coords"].val[<<c, pos[j] - 1, d - 1>>]
            ELSE prediction["intermediate_coords"].val[<<step, c, pos[j] - 1, d - 1>>]]]

C9_EmittedSnapshots ==
    MatchingBatch =>
        \A i \in StructureWrites :
            LET e == call.log[i].content
            IN  /\ [j \in 1..Len(e.structure.atoms) |-> e.structure.atoms[j].coords]
                        = Unpadded(e.model_idx, e.step)
                /\ \A j \in 1..Len(e.structure.atoms) : e.structure.atoms[j].is_present
                /\ \A j \in 1..Len(e.structure.residues) : e.structure.residues[j].is_present
                /\ e.structure.interfaces = <<>>

(* C10: chain_map is a strictly increasing map from 0..count(v)-1 into              *)
(* 0..len(v)-1 whose i-th value is the position of the i-th true entry of the chain  *)
(* mask v; every chain of the filtered structure is looked up at a chain info whose  *)
(* mask entry is true, and its new chain info has its asym_id as chain_id and valid. *)
C10_ChainMap ==
    Written =>
        \A r \in 1..Len(call.records) :
            LET v == call.records[r].id.mask
                m == call.records[r].chain_map
                chains == call.records[r].filtered.chains
            IN  /\ DOMAIN m = 0..(TrueCount(v) - 1)
                /\ \A i \in DOMAIN m :
                        /\ m[i] \in 0..(Len(v) - 1)
                        /\ v[m[i] + 1]
                        /\ TrueCount([j \in 1..m[i] |-> v[j]]) = i
                /\ \A i, j \in DOMAIN m : i < j => m[i] < m[j]
                /\ \A c \in 1..Len(chains) :
                        /\ chains[c].asym_id \in DOMAIN m
                        /\ batch["record"][r].chains[m[chains[c].asym_id] + 1].valid
                /\ \A k \in 1..Len(call.records[r].chain_info) :
                   \A c \in 1..Len(chains) :
                        /\ call.records[r].chain_info[k][c].chain_id = chains[c].asym_id
                        /\ call.records[r].chain_info[k][c].valid

\* a structure whose first chain is masked out and whose second is kept has been
\* filtered, and the chain info of a candidate has been produced
C10_Witness ==
    /\ Written
    /\ \E r \in 1..Len(call.records) :
            /\ call.records[r].id.mask = <<FALSE, TRUE>>
            /\ call.records[r].chain_map[0] = 1
            /\ Len(call.records[r].chain_info) > 0

====
